---- MODULE Spec2Model ----
(***************************************************************************)
(* Model of backend.py: the POST /ask pipeline of the Ocean Data Retriever *)
(* (LLM-assisted variant).  One request runs                               *)
(*   parse_query_to_filters -> fetch_argo_data -> answer composition.      *)
(* The completion service and the Argo data provider are external: every   *)
(* outcome they can produce is a nondeterministic input of the action that *)
(* calls them.                                                             *)
(***************************************************************************)
EXTENDS Integers, Sequences, FiniteSets, TLC

(***************************************************************************)
(* Bounds of the model.                                                    *)
(***************************************************************************)
MaxProf == 11
MaxLevels == 2
MaxBadRow == 2

(***************************************************************************)
(* JSON text and json.loads.                                               *)
(* A completion text is a sequence of lexical tokens; json.loads parses    *)
(* exactly one value and rejects trailing tokens.                          *)
(***************************************************************************)
Tok(k) == [k |-> k, n |-> 0, s |-> ""]
TNum(n) == [k |-> "num", n |-> n, s |-> ""]
TStr(s) == [k |-> "str", n |-> 0, s |-> s]
TWord(s) == [k |-> "word", n |-> 0, s |-> s]

JNull == [t |-> "null"]
JNum(n) == [t |-> "num", n |-> n]
JStr(s) == [t |-> "str", s |-> s]
JArr(a) == [t |-> "arr", a |-> a]
JObj(o) == [t |-> "obj", o |-> o]

ParseFail == [ok |-> FALSE, val |-> JNull, next |-> 0]
ParseOk(v, i) == [ok |-> TRUE, val |-> v, next |-> i]

RECURSIVE ParseValue(_, _)
RECURSIVE ParseElements(_, _, _)
RECURSIVE ParseMembers(_, _, _)

ParseValue(toks, i) ==
  IF i > Len(toks) THEN ParseFail
  ELSE LET t == toks[i] IN
    CASE t.k = "num" -> ParseOk(JNum(t.n), i + 1)
      [] t.k = "str" -> ParseOk(JStr(t.s), i + 1)
      [] t.k = "null" -> ParseOk(JNull, i + 1)
      [] t.k = "[" ->
           IF i + 1 <= Len(toks) /\ toks[i + 1].k = "]"
           THEN ParseOk(JArr(<<>>), i + 2)
           ELSE ParseElements(toks, i + 1, <<>>)
      [] t.k = "{" ->
           IF i + 1 <= Len(toks) /\ toks[i + 1].k = "}"
           THEN ParseOk(JObj(<<>>), i + 2)
           ELSE ParseMembers(toks, i + 1, <<>>)
      [] OTHER -> ParseFail

ParseElements(toks, i, acc) ==
  LET r == ParseValue(toks, i) IN
  IF ~r.ok \/ r.next > Len(toks) THEN ParseFail
  ELSE LET acc2 == Append(acc, r.val) IN
    CASE toks[r.next].k = "," -> ParseElements(toks, r.next + 1, acc2)
      [] toks[r.next].k = "]" -> ParseOk(JArr(acc2), r.next + 1)
      [] OTHER -> ParseFail

\* a repeated key keeps its last value, as a Python dict does
ParseMembers(toks, i, acc) ==
  IF i + 1 > Len(toks) \/ toks[i].k # "str" \/ toks[i + 1].k # ":" THEN ParseFail
  ELSE LET r == ParseValue(toks, i + 2) IN
    IF ~r.ok \/ r.next > Len(toks) THEN ParseFail
    ELSE LET acc2 == (toks[i].s :> r.val) @@ acc IN
      CASE toks[r.next].k = "," -> ParseMembers(toks, r.next + 1, acc2)
        [] toks[r.next].k = "}" -> ParseOk(JObj(acc2), r.next + 1)
        [] OTHER -> ParseFail

\* json.loads(text): ok = FALSE stands for the raised JSONDecodeError
JsonLoads(toks) ==
  LET r == ParseValue(toks, 1) IN
  IF r.ok /\ r.next = Len(toks) + 1 THEN r ELSE ParseFail

(***************************************************************************)
(* The filter object and the texts the completion service may return to    *)
(* the filter-extraction prompt.                                           *)
(***************************************************************************)
FilterKeys == {"region", "depth_min", "depth_max", "date_min", "date_max"}

\* the fallback of parse_query_to_filters
DefaultFilter ==
  JObj([region |-> JArr(<<JNum(-60), JNum(-30), JNum(20), JNum(40)>>),
        depth_min |-> JNum(0), depth_max |-> JNum(2000),
        date_min |-> JStr("2023-01"), date_max |-> JStr("2023-12")])

BoxToks(a, b, c, d) ==
  <<Tok("["), TNum(a), Tok(","), TNum(b), Tok(","), TNum(c), Tok(","), TNum(d), Tok("]")>>
Member(key, valToks) == <<TStr(key), Tok(":")>> \o valToks
FilterToks(regionToks, dmin, dmax) ==
  <<Tok("{")>> \o Member("region", regionToks) \o <<Tok(",")>>
    \o Member("depth_min", <<TNum(dmin)>>) \o <<Tok(",")>>
    \o Member("depth_max", <<TNum(dmax)>>) \o <<Tok(",")>>
    \o Member("date_min", <<TStr("2022-06")>>) \o <<Tok(",")>>
    \o Member("date_max", <<TStr("2022-09")>>) \o <<Tok("}")>>

TextFull == FilterToks(BoxToks(10, 20, -5, 5), 0, 500)
TextProse == <<TWord("Sure"), TWord("here"), TWord("you"), TWord("go")>>
TextTruncated == SubSeq(TextFull, 1, Len(TextFull) - 1)
TextTrailing == TextFull \o <<TWord("Hope"), TWord("this"), TWord("helps")>>
TextEmpty == <<>>
TextMissingKey ==
  <<Tok("{")>> \o Member("region", BoxToks(10, 20, -5, 5)) \o <<Tok(",")>>
    \o Member("depth_min", <<TNum(0)>>) \o <<Tok("}")>>
TextScalar == <<TNum(42)>>
TextArray == BoxToks(10, 20, -5, 5)
TextRegionNum == FilterToks(<<TNum(5)>>, 0, 500)
TextInsane == FilterToks(BoxToks(10, 20, -5, 5), 2000, 0)

\* texts that are not JSON documents
MalformedTexts == {TextProse, TextTruncated, TextTrailing, TextEmpty}
\* JSON documents that are an object with the five keys
FullKeyTexts == {TextFull, TextRegionNum, TextInsane}
\* JSON documents that are not a well-formed filter
IllFormedFilterTexts == {TextMissingKey, TextScalar, TextArray, TextRegionNum, TextInsane}
CompletionTexts == MalformedTexts \cup FullKeyTexts \cup IllFormedFilterTexts

\* the value each five-key text denotes, written out by hand
ExpectedFilter(regionVal, dmin, dmax) ==
  JObj([region |-> regionVal, depth_min |-> JNum(dmin), depth_max |-> JNum(dmax),
        date_min |-> JStr("2022-06"), date_max |-> JStr("2022-09")])
BoxVal == JArr(<<JNum(10), JNum(20), JNum(-5), JNum(5)>>)
Decoded(text) ==
  CASE text = TextFull -> ExpectedFilter(BoxVal, 0, 500)
    [] text = TextRegionNum -> ExpectedFilter(JNum(5), 0, 500)
    [] text = TextInsane -> ExpectedFilter(BoxVal, 2000, 0)
    [] OTHER -> JNull

Queries == {"mean temperature near Bermuda", "salinity in 2023"}
Answers == {"The water is warm."}

\* outcomes of openai.ChatCompletion.create
NoText == <<>>
ExtractionResponses ==
  {[kind |-> "error", text |-> NoText], [kind |-> "noshape", text |-> NoText]}
    \cup {[kind |-> "ok", text |-> t] : t \in CompletionTexts}
CompositionResponses ==
  {[kind |-> "error", text |-> ""], [kind |-> "noshape", text |-> ""]}
    \cup {[kind |-> "ok", text |-> a] : a \in Answers}

(***************************************************************************)
(* parse_query_to_filters.  The completion call and the indexing of its    *)
(* response stand outside the try block; only json.loads is guarded.       *)
(***************************************************************************)
Raise(e) == [raised |-> TRUE, exc |-> e, value |-> JNull]
Return(v) == [raised |-> FALSE, exc |-> "", value |-> v]

\* variant: the except branch forgets the fallback and leaves None
ParseQueryToFiltersNoFallback(query, resp) ==
  IF resp.kind = "error" THEN Raise("OpenAIError")
  ELSE IF resp.kind = "noshape" THEN Raise("KeyError")
  ELSE LET r == JsonLoads(resp.text) IN
       IF r.ok THEN Return(r.val) ELSE Return(JNull)

ParseQueryToFilters(query, resp) ==
  IF resp.kind = "error" THEN Raise("OpenAIError")
  ELSE IF resp.kind = "noshape" THEN Raise("KeyError")
  ELSE LET r == JsonLoads(resp.text) IN
       IF r.ok THEN Return(r.val) ELSE Return(DefaultFilter)

(***************************************************************************)
(* The data provider's result: an xarray dataset.  Either it has no N_PROF *)
(* dimension (a point collection) or it is indexed by N_PROF x N_LEVELS.   *)
(* missing = the data variables the dataset does not carry; badLat = the   *)
(* profile whose LATITUDE is not a number (0: none).                       *)
(***************************************************************************)
Limit == 10

Columns == {"N_PROF", "N_LEVELS", "JULD", "LATITUDE", "LONGITUDE", "PRES", "TEMP", "PSAL"}
MissingChoices == {{}, {"PSAL"}, {"JULD"}}

Min(a, b) == IF a < b THEN a ELSE b
Num(v) == [num |-> TRUE, v |-> v]
NotANumber == [num |-> FALSE, v |-> 0]

Datasets ==
  [hasNProf : BOOLEAN, nProf : 0..MaxProf, nLevels : 1..MaxLevels,
   missing : MissingChoices, badLat : 0..MaxBadRow]
NoDataset == [hasNProf |-> FALSE, nProf |-> 0, nLevels |-> 1, missing |-> {}, badLat |-> 0]
ProviderOutcomes ==
  {[kind |-> "error", ds |-> NoDataset]} \cup {[kind |-> "dataset", ds |-> d] : d \in Datasets}

\* one (profile, level) cell of the dataset as a table row; a data variable the
\* dataset lacks is absent from every row (row[name] raises KeyError)
Row(ds, p, l) ==
  [c \in Columns \ ds.missing |->
     CASE c = "N_PROF" -> Num(p - 1)
       [] c = "N_LEVELS" -> Num(l - 1)
       [] c = "JULD" -> Num(100 + p)
       [] c = "LATITUDE" -> IF p = ds.badLat THEN NotANumber ELSE Num(p)
       [] c = "LONGITUDE" -> Num(0 - p)
       [] c = "PRES" -> Num(10 * l)
       [] c = "TEMP" -> Num(20 - l)
       [] OTHER -> Num(35)]

\* ds.isel(N_PROF=slice(0, limit)): the first `limit` profiles, all their levels
Isel(ds, limit) == [ds EXCEPT !.nProf = Min(ds.nProf, limit)]

\* ds.to_dataframe().reset_index(): one row per cell of N_PROF x N_LEVELS, profile-major
ToDataFrame(ds) ==
  [i \in 1..(ds.nProf * ds.nLevels) |->
     Row(ds, ((i - 1) \div ds.nLevels) + 1, ((i - 1) % ds.nLevels) + 1)]

\* what the provider accepts as a selection box: four ordered numeric bounds, an
\* ordered numeric depth range and two date strings; anything else is rejected with
\* an error raised inside the try block of fetch_argo_data
IsNum(v) == v.t = "num"
WellFormedBox(region, depth_min, depth_max, date_min, date_max) ==
  /\ region.t = "arr" /\ Len(region.a) = 4
  /\ \A k \in 1..4 : IsNum(region.a[k])
  /\ region.a[1].n < region.a[2].n /\ region.a[3].n < region.a[4].n
  /\ IsNum(depth_min) /\ IsNum(depth_max) /\ depth_min.n <= depth_max.n
  /\ date_min.t = "str" /\ date_max.t = "str"

\* [*region, ...] needs an iterable region
Iterable(v) == v.t \in {"arr", "str", "obj"}

(***************************************************************************)
(* fetch_argo_data, lines 64-70: the guarded query.  failed = the except   *)
(* branch ran and ([], []) is returned; called = the provider was queried. *)
(***************************************************************************)
\* variant: isel and to_dataframe moved below the try block
FetchFrameNarrowTry(region, depth_min, depth_max, date_min, date_max, limit, outcome) ==
  IF ~Iterable(region)
  THEN [failed |-> TRUE, raised |-> FALSE, called |-> FALSE, df |-> <<>>]
  ELSE IF ~WellFormedBox(region, depth_min, depth_max, date_min, date_max)
          \/ outcome.kind = "error"
  THEN [failed |-> TRUE, raised |-> FALSE, called |-> TRUE, df |-> <<>>]
  ELSE IF ~outcome.ds.hasNProf
  THEN [failed |-> TRUE, raised |-> TRUE, called |-> TRUE, df |-> <<>>]
  ELSE [failed |-> FALSE, raised |-> FALSE, called |-> TRUE,
        df |-> ToDataFrame(Isel(outcome.ds, limit))]

\* raised = an exception leaves fetch_argo_data (the except clause catches Exception)
FetchFrame(region, depth_min, depth_max, date_min, date_max, limit, outcome) ==
  IF ~Iterable(region)
  THEN [failed |-> TRUE, raised |-> FALSE, called |-> FALSE, df |-> <<>>]
  ELSE IF ~WellFormedBox(region, depth_min, depth_max, date_min, date_max)
          \/ outcome.kind = "error" \/ ~outcome.ds.hasNProf
  THEN [failed |-> TRUE, raised |-> FALSE, called |-> TRUE, df |-> <<>>]
  ELSE [failed |-> FALSE, raised |-> FALSE, called |-> TRUE,
        df |-> ToDataFrame(Isel(outcome.ds, limit))]

(***************************************************************************)
(* fetch_argo_data, lines 73-89: one iteration of the normalization loop.  *)
(* The summary is appended before the visualization point is built; a      *)
(* KeyError anywhere in the body skips the rest of the iteration.          *)
(***************************************************************************)
TextColumns == {"N_PROF", "JULD", "LATITUDE", "LONGITUDE", "PRES", "TEMP", "PSAL"}
VizColumns == {"LATITUDE", "LONGITUDE", "PRES", "TEMP", "PSAL"}

\* the slots of the summary template, in template order
Text(row) ==
  <<row["N_PROF"], row["JULD"], row["LATITUDE"], row["LONGITUDE"],
    row["PRES"], row["TEMP"], row["PSAL"]>>
VizPoint(row) ==
  [lat |-> row["LATITUDE"], lon |-> row["LONGITUDE"], depth |-> row["PRES"],
   temp |-> row["TEMP"], salinity |-> row["PSAL"]]

\* variant: the visualization point is built and appended before the summary
NormalizeRowVizFirst(row, sums, points) ==
  IF ~(VizColumns \subseteq DOMAIN row) THEN [summaries |-> sums, viz |-> points]
  ELSE LET points2 == Append(points, VizPoint(row)) IN
       IF ~(TextColumns \subseteq DOMAIN row) THEN [summaries |-> sums, viz |-> points2]
       ELSE [summaries |-> Append(sums, Text(row)), viz |-> points2]

NormalizeRow(row, sums, points) ==
  IF ~(TextColumns \subseteq DOMAIN row) THEN [summaries |-> sums, viz |-> points]
  ELSE LET sums2 == Append(sums, Text(row)) IN
       IF ~(VizColumns \subseteq DOMAIN row) THEN [summaries |-> sums2, viz |-> points]
       ELSE [summaries |-> sums2, viz |-> Append(points, VizPoint(row))]

(***************************************************************************)
(* ask_backend.                                                            *)
(***************************************************************************)
NoDataResponse ==
  [answer |-> "No Argo data found for your request.", visualization_data |-> <<>>]
NoResponse == [answer |-> "", visualization_data |-> <<>>]

\* filters[key] of lines 104-108: "" when every lookup succeeds
LookupError(f) ==
  IF f.t # "obj" THEN "TypeError"
  ELSE IF ~(FilterKeys \subseteq DOMAIN f.o) THEN "KeyError"
  ELSE ""

\* variant: the emptiness test inverted
IsEmptyInverted(data_texts) == data_texts # <<>>

\* `not data_texts` of line 111
IsEmpty(data_texts) == data_texts = <<>>

VARIABLES
  pc,           \* position of the request in ask_backend
  q,            \* item.query
  extraction,   \* the completion service's response to the extraction prompt
  filters,      \* result of parse_query_to_filters
  df,           \* the table fetch_argo_data iterates
  idx,          \* next row of df
  summaries,    \* summaries / data_texts
  viz,          \* viz / viz_data
  sumSrc,       \* row index each summary was built from
  vizSrc,       \* row index each visualization point was built from
  fetchFailed,  \* the except branch of fetch_argo_data ran
  response,     \* body returned by ask_backend
  exc,          \* exception that left ask_backend
  excStage,     \* stage it was raised in
  complCalls,   \* calls to the completion service in this request
  provCalls,    \* calls to the data provider in this request
  composeReqs   \* answer-composition requests in this request

vars == <<pc, q, extraction, filters, df, idx, summaries, viz, sumSrc, vizSrc,
          fetchFailed, response, exc, excStage, complCalls, provCalls, composeReqs>>

NoExtraction == [kind |-> "none", text |-> NoText]

Fresh(query) ==
  /\ pc = "Received" /\ q = query
  /\ extraction = NoExtraction /\ filters = JNull
  /\ df = <<>> /\ idx = 1 /\ summaries = <<>> /\ viz = <<>>
  /\ sumSrc = <<>> /\ vizSrc = <<>> /\ fetchFailed = FALSE
  /\ response = NoResponse /\ exc = "" /\ excStage = ""
  /\ complCalls = 0 /\ provCalls = 0 /\ composeReqs = 0

Init == \E query \in Queries : Fresh(query)

\* line 100: filters = parse_query_to_filters(q)
Extract ==
  /\ pc = "Received"
  /\ \E resp \in ExtractionResponses :
       LET r == ParseQueryToFilters(q, resp) IN
       /\ extraction' = resp
       /\ complCalls' = complCalls + 1
       /\ IF r.raised
          THEN /\ pc' = "Raised" /\ exc' = r.exc /\ excStage' = "Extracting"
               /\ UNCHANGED filters
          ELSE /\ pc' = "Fetching" /\ filters' = r.value
               /\ UNCHANGED <<exc, excStage>>
  /\ UNCHANGED <<q, df, idx, summaries, viz, sumSrc, vizSrc, fetchFailed,
                 response, provCalls, composeReqs>>

\* lines 103-109 and 64-72: argument lookup, then the guarded provider query
Fetch ==
  /\ pc = "Fetching"
  /\ IF LookupError(filters) # ""
     THEN /\ pc' = "Raised" /\ exc' = LookupError(filters) /\ excStage' = "Lookup"
          /\ UNCHANGED <<df, fetchFailed, provCalls>>
     ELSE \E outcome \in ProviderOutcomes :
            LET f == FetchFrame(filters.o["region"], filters.o["depth_min"],
                                filters.o["depth_max"], filters.o["date_min"],
                                filters.o["date_max"], Limit, outcome) IN
            /\ provCalls' = provCalls + (IF f.called THEN 1 ELSE 0)
            /\ fetchFailed' = f.failed
            /\ df' = f.df
            /\ IF f.raised
               THEN pc' = "Raised" /\ exc' = "FetchError" /\ excStage' = "Fetching"
               ELSE /\ pc' = IF f.failed THEN "Fetched" ELSE "Normalizing"
                    /\ UNCHANGED <<exc, excStage>>
  /\ idx' = 1 /\ summaries' = <<>> /\ viz' = <<>>
  /\ UNCHANGED <<q, extraction, filters, sumSrc, vizSrc, response, complCalls, composeReqs>>

\* lines 73-89: one iteration of `for _, row in df.iterrows()`
Normalize ==
  /\ pc = "Normalizing" /\ idx <= Len(df)
  /\ LET r == NormalizeRow(df[idx], summaries, viz) IN
     /\ summaries' = r.summaries
     /\ viz' = r.viz
     /\ sumSrc' = IF Len(r.summaries) > Len(summaries) THEN Append(sumSrc, idx) ELSE sumSrc
     /\ vizSrc' = IF Len(r.viz) > Len(viz) THEN Append(vizSrc, idx) ELSE vizSrc
  /\ idx' = idx + 1
  /\ UNCHANGED <<pc, q, extraction, filters, df, fetchFailed, response, exc, excStage,
                 complCalls, provCalls, composeReqs>>

\* line 91: return summaries, viz
NormalizeReturn ==
  /\ pc = "Normalizing" /\ idx > Len(df)
  /\ pc' = "Fetched"
  /\ UNCHANGED <<q, extraction, filters, df, idx, summaries, viz, sumSrc, vizSrc,
                 fetchFailed, response, exc, excStage, complCalls, provCalls, composeReqs>>

\* lines 111-112
RespondNoData ==
  /\ pc = "Fetched" /\ IsEmpty(summaries)
  /\ response' = NoDataResponse
  /\ pc' = "Responded"
  /\ UNCHANGED <<q, extraction, filters, df, idx, summaries, viz, sumSrc, vizSrc,
                 fetchFailed, exc, excStage, complCalls, provCalls, composeReqs>>

\* variant: a failed composition call is attempted a second time
ComposeWithRetry ==
  /\ pc = "Fetched" /\ ~IsEmpty(summaries)
  /\ composeReqs' = composeReqs + 1
  /\ \E resp \in CompositionResponses :
       IF resp.kind = "ok"
       THEN /\ response' = [answer |-> resp.text, visualization_data |-> viz]
            /\ pc' = "Responded" /\ complCalls' = complCalls + 1
            /\ UNCHANGED <<exc, excStage>>
       ELSE /\ pc' = "Raised" /\ excStage' = "Composing" /\ complCalls' = complCalls + 2
            /\ exc' = IF resp.kind = "error" THEN "OpenAIError" ELSE "KeyError"
            /\ UNCHANGED response
  /\ UNCHANGED <<q, extraction, filters, df, idx, summaries, viz, sumSrc, vizSrc,
                 fetchFailed, provCalls>>

\* lines 115-125: the answer-composition request, outside any try block
Compose ==
  /\ pc = "Fetched" /\ ~IsEmpty(summaries)
  /\ complCalls' = complCalls + 1
  /\ composeReqs' = composeReqs + 1
  /\ \E resp \in CompositionResponses :
       IF resp.kind = "ok"
       THEN /\ response' = [answer |-> resp.text, visualization_data |-> viz]
            /\ pc' = "Responded"
            /\ UNCHANGED <<exc, excStage>>
       ELSE /\ pc' = "Raised" /\ excStage' = "Composing"
            /\ exc' = IF resp.kind = "error" THEN "OpenAIError" ELSE "KeyError"
            /\ UNCHANGED response
  /\ UNCHANGED <<q, extraction, filters, df, idx, summaries, viz, sumSrc, vizSrc,
                 fetchFailed, provCalls>>

\* the framework dispatches the next request; no state is shared between requests
NewRequest ==
  /\ pc \in {"Responded", "Raised"}
  /\ \E query \in Queries :
       /\ pc' = "Received" /\ q' = query
       /\ extraction' = NoExtraction /\ filters' = JNull
       /\ df' = <<>> /\ idx' = 1 /\ summaries' = <<>> /\ viz' = <<>>
       /\ sumSrc' = <<>> /\ vizSrc' = <<>> /\ fetchFailed' = FALSE
       /\ response' = NoResponse /\ exc' = "" /\ excStage' = ""
       /\ complCalls' = 0 /\ provCalls' = 0 /\ composeReqs' = 0

Next ==
  \/ Extract
  \/ Fetch
  \/ Normalize
  \/ NormalizeReturn
  \/ RespondNoData
  \/ Compose
  \/ NewRequest

Spec == Init /\ [][Next]_vars

(***************************************************************************)
(* Properties.                                                             *)
(***************************************************************************)
Range(f) == {f[k] : k \in DOMAIN f}
FetchReturned == pc \in {"Fetched", "Responded"} \/ (pc = "Raised" /\ excStage = "Composing")

\* C1: whenever fetch_argo_data has returned an empty summaries list, no
\* answer-composition request is issued, nothing is raised, and the response,
\* once given, is exactly the fixed "no data" body with an empty visualization list.
C1_NoDataShortCircuit ==
  (FetchReturned /\ summaries = <<>>) =>
     /\ composeReqs = 0
     /\ pc # "Raised"
     /\ (pc = "Responded" => response = NoDataResponse)

\* C1 witness: every fetched record was skipped and the fixed body was returned
C1_Witness ==
  /\ pc = "Responded" /\ Len(df) > 0 /\ summaries = <<>>
  /\ response = NoDataResponse /\ complCalls = 1

\* C2: no exception ever leaves ask_backend, and every response carries an answer string.
C2_NoExceptionEscapes ==
  /\ pc # "Raised"
  /\ (pc = "Responded" => response.answer # "")

\* C3: a failure inside the guarded part of fetch_argo_data never leaves it: the
\* function returns ([], []), the endpoint answers with the fixed "no data" body,
\* and no exception of the fetch reaches the caller of ask_backend.
C3_FetchFailureContained ==
  /\ excStage # "Fetching"
  /\ fetchFailed =>
       /\ pc \in {"Fetched", "Responded"}
       /\ summaries = <<>> /\ viz = <<>>
       /\ composeReqs = 0
       /\ (pc = "Responded" => response = NoDataResponse)

\* C3 witness: the provider was queried, the fetch failed, the request was answered
C3_Witness ==
  /\ pc = "Responded" /\ fetchFailed /\ provCalls = 1
  /\ filters = Decoded(TextFull) /\ response = NoDataResponse

\* C4: a completion text that is not JSON yields exactly the default filter; a JSON
\* object with the five keys yields exactly the decoded object, five keys, no substitution.
C4_FallbackOrDecoded ==
  (pc # "Received" /\ extraction.kind = "ok") =>
     /\ (extraction.text \in MalformedTexts => filters = DefaultFilter)
     /\ (extraction.text \in FullKeyTexts =>
           /\ filters = Decoded(extraction.text)
           /\ DOMAIN filters.o = FilterKeys)

\* C4 witness: a JSON text cut short was answered with the default filter
C4_Witness ==
  /\ pc = "Fetching" /\ extraction.kind = "ok" /\ extraction.text = TextTruncated
  /\ filters = DefaultFilter

\* C5: parse_query_to_filters never raises; when the completion call fails or its
\* response lacks the choices/message structure, the default filter is returned.
C5_ExtractorNeverFails ==
  /\ excStage # "Extracting"
  /\ (pc # "Received" /\ extraction.kind \in {"error", "noshape"}) => filters = DefaultFilter

\* C6: a completion text that is JSON but not a well-formed filter never makes the
\* endpoint raise; the request is answered with the fixed "no data" body.
C6_MalformedFilterIsFetchError ==
  (extraction.kind = "ok" /\ extraction.text \in IllFormedFilterTexts) =>
     /\ pc # "Raised"
     /\ (pc = "Responded" => response = NoDataResponse)

\* C7: when exactly one fetched record has a non-numeric latitude and the others are
\* well formed, both output lists have length (input length - 1), the offending
\* record is in neither, and every returned point has numeric lat and lon.
BadLatRows == {i \in 1..Len(df) : "LATITUDE" \in DOMAIN df[i] /\ ~df[i]["LATITUDE"].num}
C7_BadLatitudeSkipped ==
  (pc = "Fetched" /\ ~fetchFailed /\ Cardinality(BadLatRows) = 1
     /\ \A i \in 1..Len(df) : DOMAIN df[i] = Columns) =>
     /\ Len(summaries) = Len(df) - 1
     /\ Len(viz) = Len(df) - 1
     /\ BadLatRows \cap (Range(sumSrc) \cup Range(vizSrc)) = {}
     /\ \A k \in 1..Len(viz) : viz[k].lat.num /\ viz[k].lon.num

\* C8: after every iteration of the normalization loop and at return, the two lists
\* have equal length, entry k of each comes from the same input record, input order
\* is kept, and a record contributes to both lists or to neither.
Convertible(row) == TextColumns \cup VizColumns \subseteq DOMAIN row
C8_ParallelLists ==
  /\ Len(summaries) = Len(viz)
  /\ sumSrc = vizSrc
  /\ Len(sumSrc) = Len(summaries)
  /\ \A k \in 1..Len(sumSrc) :
       /\ sumSrc[k] \in 1..(idx - 1)
       /\ (k > 1 => sumSrc[k - 1] < sumSrc[k])
       /\ summaries[k] = Text(df[sumSrc[k]])
       /\ viz[k] = VizPoint(df[sumSrc[k]])
  /\ pc \in {"Normalizing", "Fetched"} =>
       \A i \in 1..(idx - 1) : Convertible(df[i]) <=> i \in Range(sumSrc)

\* C8 witness: the loop is under way, two records in, two entries in each list
C8_Witness ==
  /\ pc = "Normalizing" /\ idx = 3 /\ Len(df) > 3
  /\ Len(summaries) = 2 /\ Len(viz) = 2

\* C9 (as stated): at most two outbound calls per request, at most one of them to
\* the completion service.
C9_AtMostTwoCalls ==
  /\ provCalls <= 1
  /\ complCalls <= 1
  /\ provCalls + complCalls <= 2

\* C9 (amended): at most three outbound calls per request: at most one to the data
\* provider, exactly one filter-extraction call and at most one answer-composition
\* call to the completion service; a failed call is never attempted again.
C9_AtMostThreeCalls ==
  /\ provCalls <= 1
  /\ composeReqs <= 1
  /\ complCalls = (IF pc = "Received" THEN 0 ELSE 1) + composeReqs
  /\ provCalls + complCalls <= 3

\* C9 witness: a request answered after both completion calls and the provider call
C9_Witness == pc = "Responded" /\ complCalls = 2 /\ provCalls = 1

\* C10: the endpoint returns at most `limit` = 10 summaries and visualization points.
C10_AtMostLimitResults ==
  /\ Len(summaries) <= Limit
  /\ Len(viz) <= Limit
  /\ Len(response.visualization_data) <= Limit

====
